---------------------------- MODULE Spec2Model ----------------------------
(***************************************************************************)
(* Model of src/Well.py: the Well class (a pandas DataFrame of intervals   *)
(* behind add_interval / remove_interval), Well.plotWell and plotSection.  *)
(*                                                                         *)
(* A DataFrame is a sequence of rows in positional order; every row        *)
(* carries its index label (idx) next to the four columns.  pandas keeps   *)
(* the two apart: .iloc[] and iteration order are positional, .drop() and  *)
(* .index are by label.                                                    *)
(*                                                                         *)
(* Figure coordinates of text are kept in tenths (x10, y10) because the    *)
(* code places text at width*1.1, width*0.5 and elevation+1.5; depths,     *)
(* elevations and x coordinates are integers.                              *)
(***************************************************************************)
EXTENDS Integers, Sequences, FiniteSets, TLC

VARIABLES classIntervals, wells, call, result, pre, fig

vars == <<classIntervals, wells, call, result, pre, fig>>

---------------------------------------------------------------------------
(* Bounds of the model *)

MaxRows == 3
MaxSectionRows == 2
MaxSectionLen == 2

(* Program constants *)

plotWellWidth == 1
sectionWidth == 5
wellLabelHeight10 == 15
defaultCoord == 0
defaultElevation == 0

---------------------------------------------------------------------------
(* Inputs *)

\* Python None for an optional argument; a supplied value v is <<v>>.
None == <<>>
Some(v) == <<v>>

\* keys of Well.plotTemplates
plotTemplates ==
    {"Complex Zone", "Brown Clay", "Grey Clay", "Fill", "Silt", "Clay Silt",
     "Clay", "Silt Clay", "Till", "Bedrock"}

\* lithologies the callers pass: two keys of the style table and one absent
Lithologies == {"Clay", "Till", "Granite"}
SectionLithologies == {"Clay", "Granite"}
Descriptions == {""}
Tops == {0, 1}
Thicknesses == {1, 2}
LayNums == 0..(MaxRows - 1)
WellIds == {1, 2}
XCoords == {0, 10}
Elevations == {98, 100}

---------------------------------------------------------------------------
(* pandas.DataFrame *)

Columns(row) == <<row.Lithology, row.Top, row.Bottom, row.Description>>

\* pd.DataFrame(columns=[...]): no rows
EmptyFrame == <<>>

\* DataFrame.append(interval, ignore_index=True): the new row goes last and
\* the whole index is renumbered 0..n in positional order.
AppendRow(df, interval) ==
    [i \in 1..(Len(df) + 1) |->
        LET r == IF i <= Len(df) THEN df[i] ELSE interval
        IN  [idx |-> i - 1, Lithology |-> r.Lithology, Top |-> r.Top,
             Bottom |-> r.Bottom, Description |-> r.Description]]

\* positions kept by drop_duplicates(): the first of each group of equal rows
KeptPositions(df) ==
    {i \in 1..Len(df) : \A j \in 1..(i - 1) : Columns(df[j]) # Columns(df[i])}

RECURSIVE TakePositions(_, _, _)
TakePositions(df, keep, i) ==
    IF i > Len(df) THEN <<>>
    ELSE (IF i \in keep THEN <<df[i]>> ELSE <<>>) \o TakePositions(df, keep, i + 1)

\* DataFrame.drop_duplicates(): keep='first', labels kept
NoDropDuplicates(df) == df

DropDuplicates(df) == TakePositions(df, KeptPositions(df), 1)

\* position of row i after a stable sort by Top
RankByTop(df, i) ==
    1 + Cardinality({j \in 1..Len(df) :
                        \/ df[j].Top < df[i].Top
                        \/ df[j].Top = df[i].Top /\ j < i})

\* DataFrame.sort_values(by='Top'): ascending, labels travel with their
\* rows.  The default kind is 'quicksort'; numpy's quicksort sorts runs of
\* at most 16 elements by insertion, so at the sizes modelled here rows with
\* equal Top keep their relative order.
NoSortValues(df) == df

SortValues(df) ==
    [k \in 1..Len(df) |-> df[CHOOSE i \in 1..Len(df) : RankByTop(df, i) = k]]

Labels(df) == {df[i].idx : i \in 1..Len(df)}

\* DataFrame.drop(label): by index label; KeyError when no row has it
Drop(df, label) ==
    IF label \in Labels(df)
    THEN [result |-> "ok",
          df |-> TakePositions(df, {i \in 1..Len(df) : df[i].idx # label}, 1)]
    ELSE [result |-> "KeyError", df |-> df]

\* df[df.Lithology != lithology]: boolean mask, order and labels kept
MaskFirstOnly(df, lithology) ==
    LET hits == {i \in 1..Len(df) : df[i].Lithology = lithology}
    IN  IF hits = {} THEN df
        ELSE LET first == CHOOSE i \in hits : \A j \in hits : i <= j
             IN  TakePositions(df, (1..Len(df)) \ {first}, 1)

MaskNotLithology(df, lithology) ==
    TakePositions(df, {i \in 1..Len(df) : df[i].Lithology # lithology}, 1)

\* df.iloc[i] for i >= 0 is in range iff i < len(df)
IlocInRange(df, i) == i \in 0..(Len(df) - 1)

Iloc(df, i) == df[i + 1]


---------------------------------------------------------------------------
(* class Well: objects and attribute lookup *)

\* Well(name=.., xcoord=.., elevation=..): __init__ sets metadata only; the
\* instance has no 'intervals' attribute of its own until one is assigned.
NewWell(name, xcoord, elevation) ==
    [name |-> name, xcoord |-> xcoord, elevation |-> elevation,
     hasOwn |-> FALSE, intervals |-> EmptyFrame]

\* reading self.intervals: the instance attribute if there is one, else the
\* class attribute Well.intervals
Intervals(w) == IF wells[w].hasOwn THEN wells[w].intervals ELSE classIntervals

PreIntervals(w) ==
    IF pre.wells[w].hasOwn THEN pre.wells[w].intervals ELSE pre.classIntervals

\* the assignment self.intervals = df binds the instance attribute
SetIntervalsOnClass(w, df) ==
    /\ classIntervals' = df
    /\ UNCHANGED wells

SetIntervals(w, df) ==
    /\ wells' = [wells EXCEPT ![w].hasOwn = TRUE, ![w].intervals = df]
    /\ UNCHANGED classIntervals

Snapshot == [wells |-> wells, classIntervals |-> classIntervals]

NoFigure == [fills |-> <<>>, texts |-> <<>>, legend |-> <<>>, ylim |-> <<>>]

\* (layNum == None), (layNum != None)
LayNumTruthy(layNum) == layNum # None /\ layNum # Some(0)

LayNumGiven(layNum) == layNum # None

LithologyGiven(lithology) == lithology # None

---------------------------------------------------------------------------
(* Operations *)

Construct(w, xcoord, elevation) ==
    /\ w \notin DOMAIN wells
    /\ wells' = (w :> NewWell(w, xcoord, elevation)) @@ wells
    /\ UNCHANGED classIntervals
    /\ call' = [op |-> "Well", w |-> w]
    /\ result' = "ok"
    /\ pre' = Snapshot
    /\ fig' = NoFigure

add_interval(w, top, bottom, lithology, description) ==
    LET interval == [idx |-> 0, Lithology |-> lithology, Top |-> top,
                     Bottom |-> bottom, Description |-> description]
    IN  /\ w \in DOMAIN wells
        /\ SetIntervals(w, SortValues(DropDuplicates(AppendRow(Intervals(w), interval))))
        /\ call' = [op |-> "add_interval", w |-> w, top |-> top, bottom |-> bottom,
                    lithology |-> lithology, description |-> description]
        /\ result' = "ok"
        /\ pre' = Snapshot
        /\ fig' = NoFigure

remove_interval(w, layNum, lithology) ==
    /\ w \in DOMAIN wells
    /\ call' = [op |-> "remove_interval", w |-> w, layNum |-> layNum,
                lithology |-> lithology]
    /\ pre' = Snapshot
    /\ fig' = NoFigure
    /\ IF ~LayNumGiven(layNum) /\ ~LithologyGiven(lithology)
       THEN /\ result' = "Exception"
            /\ UNCHANGED <<wells, classIntervals>>
       ELSE LET dropped == IF LayNumGiven(layNum)
                           THEN Drop(Intervals(w), layNum[1])
                           ELSE [result |-> "ok", df |-> Intervals(w)]
            IN  IF dropped.result # "ok"
                THEN /\ result' = dropped.result
                     /\ UNCHANGED <<wells, classIntervals>>
                ELSE /\ result' = "ok"
                     /\ SetIntervals(w, IF LithologyGiven(lithology)
                                        THEN MaskNotLithology(dropped.df, lithology[1])
                                        ELSE dropped.df)

---------------------------------------------------------------------------
(* Rendering *)

Range(seq) == {seq[i] : i \in 1..Len(seq)}

\* OrderedDict(zip(l, h)).keys(): each label once, in order of first insertion
RECURSIVE OrderedDictKeys(_)
OrderedDictKeys(labels) ==
    IF labels = <<>> THEN <<>>
    ELSE LET n == Len(labels)
             front == OrderedDictKeys(SubSeq(labels, 1, n - 1))
         IN  IF labels[n] \in Range(front) THEN front ELSE Append(front, labels[n])

\* ax.get_legend_handles_labels(): the labels of the patches in drawing order
LegendLabels(fills) == [i \in 1..Len(fills) |-> fills[i].label]

\* plotWell, lines 86-108: for i in self.intervals.index, in positional
\* order k = 1, 2, ...; i is the LABEL of the k-th row and is then used as a
\* POSITION in self.intervals.iloc[i].
RECURSIVE WellLoop(_, _, _, _)
WellLoop(df, k, description, ax) ==
    IF k > Len(df) THEN [result |-> "ok", fig |-> ax]
    ELSE LET i == df[k].idx
         IN  IF ~IlocInRange(df, i) THEN [result |-> "IndexError", fig |-> ax]
             ELSE LET row == Iloc(df, i)
                      lith == row.Lithology
                  IN  IF lith \notin plotTemplates
                      THEN [result |-> "KeyError", fig |-> ax]
                      ELSE WellLoop(df, k + 1, description,
                             [ax EXCEPT
                                !.fills = Append(@, [x |-> <<0, plotWellWidth>>,
                                                     y |-> <<row.Top, row.Bottom>>,
                                                     label |-> lith]),
                                !.texts = IF description
                                          THEN Append(@, [x10 |-> 11 * plotWellWidth,
                                                          y10 |-> 10 * row.Top,
                                                          s |-> row.Description])
                                          ELSE @])

\* Well.plotWell(description, hatch, legend, figTitle, save): the figure it
\* builds, or the exception it raises.  hatch is unused by the code; figTitle
\* and save only name the output file.
PlotWellFigure(df, description, legend) ==
    IF ~IlocInRange(df, 0) THEN [result |-> "IndexError", fig |-> NoFigure]
    ELSE LET top == Iloc(df, 0).Top
             bttm == Iloc(df, Len(df) - 1).Bottom
             loop == WellLoop(df, 1, description, NoFigure)
         IN  IF loop.result # "ok" THEN loop
             ELSE [result |-> "ok",
                   fig |-> [loop.fig EXCEPT
                              !.ylim = <<top, bttm>>,
                              !.legend = IF legend
                                         THEN OrderedDictKeys(LegendLabels(loop.fig.fills))
                                         ELSE <<>>]]

\* what plotSection reads of a Well
WellView(w) ==
    [name |-> wells[w].name, xcoord |-> wells[w].xcoord,
     elevation |-> wells[w].elevation, intervals |-> Intervals(w)]

\* lines 228-229: depth to elevation; y = [intTop, intBttm, intBttm, intTop]
DepthAsElevation(elevation, row) == <<row.Top, row.Bottom>>

SectionSpan(elevation, row) == <<elevation - row.Top, elevation - row.Bottom>>

\* plotSection, lines 226-242: the inner loop over one well's intervals; iter
\* is the iteration of the outer loop that draws the fill.
RECURSIVE SectionInner(_, _, _, _, _)
SectionInner(view, k, width, iter, fills) ==
    LET df == view.intervals
    IN  IF k > Len(df) THEN [result |-> "ok", fills |-> fills]
        ELSE LET i == df[k].idx
             IN  IF ~IlocInRange(df, i) THEN [result |-> "IndexError", fills |-> fills]
                 ELSE LET row == Iloc(df, i)
                          lith == row.Lithology
                      IN  IF lith \notin plotTemplates
                          THEN [result |-> "KeyError", fills |-> fills]
                          ELSE SectionInner(view, k + 1, width, iter,
                                 Append(fills,
                                        [x |-> <<view.xcoord, view.xcoord + width>>,
                                         y |-> SectionSpan(view.elevation, row),
                                         label |-> lith, iter |-> iter]))

\* plotSection, lines 224-246: the outer loop.  xx is the local variable set
\* at line 239 inside the inner loop and read at line 246 after it: None
\* while unbound, else Some(value), kept from one well to the next.
RECURSIVE SectionOuter(_, _, _, _, _)
SectionOuter(views, k, width, xx, ax) ==
    IF k > Len(views) THEN [result |-> "ok", fig |-> ax]
    ELSE LET view == views[k]
             inner == SectionInner(view, 1, width, k, ax.fills)
             xx1 == IF view.intervals = <<>> THEN xx ELSE Some(view.xcoord)
         IN  IF inner.result # "ok"
             THEN [result |-> inner.result, fig |-> [ax EXCEPT !.fills = inner.fills]]
             ELSE IF xx1 = None
             THEN [result |-> "UnboundLocalError",
                   fig |-> [ax EXCEPT !.fills = inner.fills]]
             ELSE SectionOuter(views, k + 1, width, xx1,
                    [ax EXCEPT
                       !.fills = inner.fills,
                       !.texts = Append(@, [x10 |-> 10 * xx1[1] + 5 * width,
                                            y10 |-> 10 * view.elevation + wellLabelHeight10,
                                            s |-> view.name])])

\* plotSection(wells, width, ...): the figure it builds, or the exception
PlotSectionFigure(views, width) ==
    LET loop == SectionOuter(views, 1, width, None, NoFigure)
    IN  IF loop.result # "ok" THEN loop
        ELSE [result |-> "ok",
              fig |-> [loop.fig EXCEPT
                         !.legend = OrderedDictKeys(LegendLabels(loop.fig.fills))]]

plotWell(w, description, legend) ==
    /\ w \in DOMAIN wells
    /\ LET r == PlotWellFigure(Intervals(w), description, legend)
       IN  /\ result' = r.result
           /\ fig' = r.fig
    /\ call' = [op |-> "plotWell", w |-> w, description |-> description,
                legend |-> legend]
    /\ pre' = Snapshot
    /\ UNCHANGED <<wells, classIntervals>>

plotSection(ws, width) ==
    /\ Range(ws) \subseteq DOMAIN wells
    /\ LET r == PlotSectionFigure([k \in 1..Len(ws) |-> WellView(ws[k])], width)
       IN  /\ result' = r.result
           /\ fig' = r.fig
    /\ call' = [op |-> "plotSection", ws |-> ws, width |-> width]
    /\ pre' = Snapshot
    /\ UNCHANGED <<wells, classIntervals>>

---------------------------------------------------------------------------
(* Specifications *)

Init ==
    /\ classIntervals = EmptyFrame
    /\ wells = <<>>
    /\ call = [op |-> "import"]
    /\ result = "ok"
    /\ pre = [wells |-> <<>>, classIntervals |-> EmptyFrame]
    /\ fig = NoFigure

OptionalLayNums == {None} \cup {Some(k) : k \in LayNums}

OptionalSiteLayNums == {None} \cup {Some(k) : k \in 0..(MaxSectionRows - 1)}

WellLists(ids) == UNION {[1..n -> ids] : n \in 0..MaxSectionLen}

RECURSIVE TotalRows(_)
TotalRows(ids) ==
    IF ids = {} THEN 0
    ELSE LET w == CHOOSE v \in ids : TRUE
         IN  Len(Intervals(w)) + TotalRows(ids \ {w})

\* one Well built with the default metadata, Well()
Next ==
    \/ Construct(1, defaultCoord, defaultElevation)
    \/ \E w \in DOMAIN wells, top \in Tops, thick \in Thicknesses,
          lithology \in Lithologies, description \in Descriptions :
          /\ Len(Intervals(w)) < MaxRows
          /\ add_interval(w, top, top + thick, lithology, description)
    \/ \E w \in DOMAIN wells, layNum \in OptionalLayNums,
          lithology \in {None} \cup {Some(l) : l \in Lithologies} :
          remove_interval(w, layNum, lithology)
    \/ \E w \in DOMAIN wells, description \in BOOLEAN, legend \in BOOLEAN :
          plotWell(w, description, legend)
    \/ \E ws \in WellLists(DOMAIN wells) : plotSection(ws, sectionWidth)

Spec == Init /\ [][Next]_vars

\* several Wells with their own coordinates
ConstructSite == \E w \in WellIds, xcoord \in XCoords, elevation \in Elevations :
                    Construct(w, xcoord, elevation)

AddSite == \E w \in DOMAIN wells, top \in Tops, thick \in Thicknesses,
              lithology \in SectionLithologies :
              /\ TotalRows(DOMAIN wells) < MaxSectionRows
              /\ add_interval(w, top, top + thick, lithology, "")

RemoveSite == \E w \in DOMAIN wells, layNum \in OptionalSiteLayNums,
                 lithology \in {None} \cup {Some(l) : l \in SectionLithologies} :
                 remove_interval(w, layNum, lithology)

PlotSite == \E ws \in WellLists(DOMAIN wells) : plotSection(ws, sectionWidth)

\* construction and mutation of several Wells built as Well()
ConstructDefault == \E w \in WellIds : Construct(w, defaultCoord, defaultElevation)

NextWells == ConstructDefault \/ AddSite \/ RemoveSite

SpecWells == Init /\ [][NextWells]_vars

\* wells populated by add_interval alone, drawn into one section
NextSection == ConstructSite \/ AddSite \/ PlotSite

SpecSection == Init /\ [][NextSection]_vars

---------------------------------------------------------------------------
(* Properties *)

IsCall(op) == call.op = op

ColumnsOf(df) == [i \in 1..Len(df) |-> Columns(df[i])]

ColumnSet(df) == {Columns(df[i]) : i \in 1..Len(df)}

LithologiesOf(df) == [i \in 1..Len(df) |-> df[i].Lithology]

LabelsOutOfOrder(df) == \E k \in 1..(Len(df) - 1) : df[k].idx > df[k + 1].idx

\* the elements of seq at the positions in keep, in order
Picked(seq, keep) == TakePositions(seq, keep, 1)

FirstOccurrences(seq) ==
    Picked(seq, {i \in 1..Len(seq) : \A j \in 1..(i - 1) : seq[j] # seq[i]})

RECURSIVE StoredLithologies(_)
StoredLithologies(ws) ==
    IF ws = <<>> THEN <<>>
    ELSE LithologiesOf(Intervals(Head(ws))) \o StoredLithologies(Tail(ws))

AllKnown(df) == \A i \in 1..Len(df) : df[i].Lithology \in plotTemplates

\* C1: after every add_interval or remove_interval call that returns
\* normally, the stored intervals, read in positional row order, are sorted
\* ascending by Top.
C1_SortedByTop ==
    (call.op \in {"add_interval", "remove_interval"} /\ result = "ok") =>
        LET df == Intervals(call.w)
        IN  \A k \in 1..(Len(df) - 1) : df[k].Top <= df[k + 1].Top

\* a removal returned normally on a well whose rows had been reordered by an
\* earlier add_interval and still holds two rows
C1_Witness ==
    /\ IsCall("remove_interval")
    /\ result = "ok"
    /\ Len(Intervals(call.w)) >= 2
    /\ Len(PreIntervals(call.w)) > Len(Intervals(call.w))
    /\ LabelsOutOfOrder(PreIntervals(call.w))

\* C2: remove_interval(layNum=k) removes the interval at ordinal position k
\* (0-based) of the stored, Top-sorted sequence at the time of the call.
C2_RemovesOrdinalPosition ==
    (/\ IsCall("remove_interval")
     /\ call.layNum # None
     /\ call.lithology = None
     /\ result = "ok") =>
        LET old == PreIntervals(call.w)
            k == call.layNum[1]
        IN  /\ k + 1 \in 1..Len(old)
            /\ ColumnsOf(Intervals(call.w)) =
                   ColumnsOf(Picked(old, (1..Len(old)) \ {k + 1}))

\* C3: plotWell and plotSection fail only by the lookup of a lithology that
\* is absent from plotTemplates: when every stored lithology is a key of the
\* table they run to completion.
C3_OnlyLookupFailure ==
    /\ IsCall("plotWell") =>
          /\ result \in {"ok", "KeyError"}
          /\ AllKnown(Intervals(call.w)) => result = "ok"
    /\ IsCall("plotSection") =>
          /\ result \in {"ok", "KeyError"}
          /\ (\A k \in 1..Len(call.ws) : AllKnown(Intervals(call.ws[k]))) =>
                 result = "ok"

\* C4: the legend built by plotWell(legend=True) and by plotSection lists each
\* distinct lithology once, in order of first occurrence in the stored
\* (Top-ascending) interval order.
C4_LegendFirstOccurrence ==
    /\ (IsCall("plotWell") /\ call.legend /\ result = "ok") =>
          fig.legend = FirstOccurrences(LithologiesOf(Intervals(call.w)))
    /\ (IsCall("plotSection") /\ result = "ok") =>
          fig.legend = FirstOccurrences(StoredLithologies(call.ws))

\* C5: each Well owns its interval collection: the class-level table stays
\* empty, a newly constructed Well is empty whatever other Wells hold, and
\* add_interval or remove_interval on one Well leaves the stored intervals of
\* every other Well unchanged.
C5_OwnIntervals ==
    /\ classIntervals = EmptyFrame
    /\ IsCall("Well") => Intervals(call.w) = EmptyFrame
    /\ call.op \in {"add_interval", "remove_interval"} =>
          \A v \in DOMAIN wells \ {call.w} : Intervals(v) = PreIntervals(v)

\* add_interval on a Well that had no intervals of its own yet, while another
\* Well is populated
C5_Witness ==
    /\ IsCall("add_interval")
    /\ ~pre.wells[call.w].hasOwn
    /\ Len(Intervals(call.w)) = 1
    /\ \E v \in DOMAIN wells \ {call.w} : Len(Intervals(v)) >= 1

SpanCount(spans, s) == Cardinality({i \in 1..Len(spans) : spans[i] = s})

SameCollection(a, b) ==
    /\ Len(a) = Len(b)
    /\ \A s \in Range(a) \cup Range(b) : SpanCount(a, s) = SpanCount(b, s)

Low(y) == IF y[1] <= y[2] THEN y[1] ELSE y[2]

High(y) == IF y[1] <= y[2] THEN y[2] ELSE y[1]

DrawnSpans(k) ==
    LET mine == Picked(fig.fills, {i \in 1..Len(fig.fills) : fig.fills[i].iter = k})
    IN  [i \in 1..Len(mine) |-> <<Low(mine[i].y), High(mine[i].y)>>]

ExpectedSpans(w) ==
    LET df == Intervals(w)
    IN  [i \in 1..Len(df) |->
            <<wells[w].elevation - df[i].Bottom, wells[w].elevation - df[i].Top>>]

\* C6: for a Well with elevation E populated by add_interval calls, a
\* plotSection that returns draws exactly one rectangle per stored interval,
\* and the collection of vertical spans drawn for the well equals the
\* collection of [E - Bottom, E - Top] over its stored intervals.
C6_SectionSpans ==
    (IsCall("plotSection") /\ result = "ok") =>
        \A k \in 1..Len(call.ws) :
            SameCollection(DrawnSpans(k), ExpectedSpans(call.ws[k]))

\* a section was drawn of a well whose two rows had been reordered by
\* add_interval
C6_Witness ==
    /\ IsCall("plotSection")
    /\ result = "ok"
    /\ \E k \in 1..Len(call.ws) :
          /\ Len(Intervals(call.ws[k])) >= 2
          /\ LabelsOutOfOrder(Intervals(call.ws[k]))

\* C7: remove_interval(lithology=L) with no layNum removes every stored
\* record whose Lithology is L and leaves all other records present,
\* unmodified and in the same relative order; with no such record the stored
\* records are unchanged.
C7_RemoveByLithology ==
    (IsCall("remove_interval") /\ call.layNum = None /\ call.lithology # None) =>
        LET old == PreIntervals(call.w)
            new == Intervals(call.w)
            keep == {i \in 1..Len(old) : old[i].Lithology # call.lithology[1]}
        IN  /\ result = "ok"
            /\ Len(new) = Cardinality(keep)
            /\ \A i \in keep : new[Cardinality({j \in keep : j <= i})] = old[i]
            /\ (keep = 1..Len(old)) => new = old

\* two records of the lithology were removed and another one kept, on a well
\* whose rows had been reordered by add_interval
C7_Witness ==
    /\ IsCall("remove_interval")
    /\ call.layNum = None
    /\ call.lithology # None
    /\ Len(PreIntervals(call.w)) = Len(Intervals(call.w)) + 2
    /\ Len(Intervals(call.w)) >= 1
    /\ LabelsOutOfOrder(PreIntervals(call.w))

\* C8: no Well holds two records with identical (Lithology, Top, Bottom,
\* Description), and add_interval with a tuple that is already stored leaves
\* exactly one record with those values and the same set of records.
C8_NoDuplicateRecords ==
    /\ \A w \in DOMAIN wells :
          \A i \in 1..Len(Intervals(w)) : \A j \in 1..Len(Intervals(w)) :
              Columns(Intervals(w)[i]) = Columns(Intervals(w)[j]) => i = j
    /\ IsCall("add_interval") =>
          LET t == <<call.lithology, call.top, call.bottom, call.description>>
              new == Intervals(call.w)
          IN  /\ Cardinality({i \in 1..Len(new) : Columns(new[i]) = t}) = 1
              /\ t \in ColumnSet(PreIntervals(call.w)) =>
                     ColumnSet(new) = ColumnSet(PreIntervals(call.w))

\* add_interval was called with a tuple already stored among other records
C8_Witness ==
    /\ IsCall("add_interval")
    /\ <<call.lithology, call.top, call.bottom, call.description>>
           \in ColumnSet(PreIntervals(call.w))
    /\ Len(PreIntervals(call.w)) >= 2

\* C9: remove_interval with neither layNum nor lithology raises the
\* configuration error and leaves the stored intervals unchanged; layNum=0
\* with no lithology counts as a supplied selector and does not raise it.
C9_ConfigurationError ==
    IsCall("remove_interval") =>
        /\ (call.layNum = None /\ call.lithology = None) =>
               /\ result = "Exception"
               /\ wells = pre.wells
               /\ classIntervals = pre.classIntervals
        /\ (call.layNum = Some(0) /\ call.lithology = None) =>
               result # "Exception"

\* remove_interval() without selectors was called on a populated well
C9_Witness ==
    /\ IsCall("remove_interval")
    /\ call.layNum = None
    /\ call.lithology = None
    /\ result = "Exception"
    /\ Len(Intervals(call.w)) >= 1

\* C10: every well passed to plotSection, an empty one included and at any
\* position, contributes exactly one name label at its own xcoord + width/2
\* and its elevation + wellLabelHeight; an empty well contributes no
\* rectangle and causes no error.
C10_OneLabelPerWell ==
    (/\ IsCall("plotSection")
     /\ \A k \in 1..Len(call.ws) : AllKnown(Intervals(call.ws[k]))) =>
        /\ result = "ok"
        /\ Len(fig.texts) = Len(call.ws)
        /\ \A k \in 1..Len(call.ws) :
              /\ fig.texts[k] =
                     [x10 |-> 10 * wells[call.ws[k]].xcoord + 5 * call.width,
                      y10 |-> 10 * wells[call.ws[k]].elevation + wellLabelHeight10,
                      s |-> wells[call.ws[k]].name]
              /\ Intervals(call.ws[k]) = <<>> => DrawnSpans(k) = <<>>

=============================================================================
